---------------------------- MODULE Spec2Model ----------------------------
(***************************************************************************)
(* A model of the example programs of the repository.  Every file is an   *)
(* independent program with its own main; one behaviour of Spec is one    *)
(* execution of one of them.  The variable prog names the program that    *)
(* runs; the other variables are that program's globals, parameters and   *)
(* locals under the names the source gives them, so a name such as a, b,  *)
(* i or result belongs to whichever program prog names.                   *)
(***************************************************************************)
EXTENDS Integers, Sequences, FiniteSets, TLC

VARIABLES
    prog,                 \* the program (source file) being executed
    pc,                   \* position of the main thread
    exit,                 \* how the process ended, "running" until then
    cout,                 \* what was written to std::cout, token by token
    a, b,                 \* divide/safe_divide parameters; fibonacci locals
    result,               \* divide's result; factorial's runtime accumulator
    n,                    \* factorial's argument
    i,                    \* loop variable / index argument
    idx,                  \* generator.cpp: main's countdown
    compile_time_result,  \* if_consteval.cpp: main's constexpr local
    runtime_result,       \* if_consteval.cpp: main's runtime local
    applied,              \* optional_monadic.cpp: callables invoked so far (history)
    pcGen,                \* generator.cpp: state of the fibonacci coroutine
    yields,               \* generator.cpp: values co_yield-ed so far (history)
    mutex,                \* shared_mutex.cpp: state of the std::shared_mutex
    shared_data,          \* shared_mutex.cpp: the shared integer
    pcReader,             \* shared_mutex.cpp: position of thread t1
    pcWriter,             \* shared_mutex.cpp: position of thread t2
    lockLog,              \* shared_mutex.cpp: lock/unlock events in order (history)
    prev                  \* output of the previous execution (RerunSpec only)

progVars  == <<prog, pc, exit, cout>>
localVars == <<a, b, result, n, i, idx, compile_time_result, runtime_result,
               applied>>
genVars   == <<pcGen, yields>>
smVars    == <<mutex, shared_data, pcReader, pcWriter, lockLog>>
vars      == <<progVars, localVars, genVars, smVars, prev>>

----------------------------------------------------------------------------
(* int is 32 bits wide.                                                    *)
MaxInt == 2147483647
MinInt == -MaxInt - 1

(* Bounds of the enumerated inputs.                                        *)
MaxAbs   == 4      \* divide: small operands are -MaxAbs..MaxAbs
NegRange == 2      \* factorial: negative arguments -NegRange..-1
MaxFactN == 13     \* factorial: largest argument
MaxIndex == 5      \* operator[]: largest index

DivInputs  == (-MaxAbs..MaxAbs) \cup {10, MinInt, MinInt + 1, MaxInt - 1, MaxInt}
FactInputs == (-NegRange..MaxFactN) \cup {MinInt}

(* Values an int may be left holding once behaviour is undefined.          *)
UBValues == {MinInt, -1, 0, 1, MaxInt}

Programs == {"shared_mutex", "optional", "expected", "optional_monadic",
             "generator", "constexpr", "if_consteval",
             "static_operator_brackets"}

Exit(status) ==
    /\ pc' = "exited"
    /\ exit' = status

----------------------------------------------------------------------------
(* cpp14/shared_mutex.cpp                                                  *)

FreeMutex == [shared |-> 0, exclusive |-> FALSE]

(* Faulty variant: a shared lock that does not wait for the writer.        *)
CanLockShared_Always == TRUE

(* std::shared_lock's constructor: blocks while a writer owns the mutex.   *)
CanLockShared == ~mutex.exclusive

(* Faulty variant: an exclusive lock that does not wait for readers.       *)
CanLockExclusive_IgnoreReaders == ~mutex.exclusive

(* std::unique_lock's constructor: blocks while anybody owns the mutex.    *)
CanLockExclusive == ~mutex.exclusive /\ mutex.shared = 0

MainSpawnT1 ==
    /\ prog = "shared_mutex" /\ pc = "L20"
    /\ pcReader' = "L9"
    /\ pc' = "L21"
    /\ UNCHANGED <<prog, exit, cout, localVars, genVars, mutex, shared_data,
                   pcWriter, lockLog, prev>>

MainSpawnT2 ==
    /\ prog = "shared_mutex" /\ pc = "L21"
    /\ pcWriter' = "L14"
    /\ pc' = "L22"
    /\ UNCHANGED <<prog, exit, cout, localVars, genVars, mutex, shared_data,
                   pcReader, lockLog, prev>>

MainJoinT1 ==
    /\ prog = "shared_mutex" /\ pc = "L22"
    /\ pcReader = "done"
    /\ pc' = "L23"
    /\ UNCHANGED <<prog, exit, cout, localVars, genVars, smVars, prev>>

MainJoinT2 ==
    /\ prog = "shared_mutex" /\ pc = "L23"
    /\ pcWriter = "done"
    /\ pc' = "L24"
    /\ UNCHANGED <<prog, exit, cout, localVars, genVars, smVars, prev>>

SharedMutexReturn ==
    /\ prog = "shared_mutex" /\ pc = "L24"
    /\ Exit("0")
    /\ UNCHANGED <<prog, cout, localVars, genVars, smVars, prev>>

ReaderLock ==
    /\ pcReader = "L9"
    /\ CanLockShared
    /\ mutex' = [mutex EXCEPT !.shared = @ + 1]
    /\ lockLog' = Append(lockLog, "lock_shared")
    /\ pcReader' = "L10"
    /\ UNCHANGED <<progVars, localVars, genVars, shared_data, pcWriter, prev>>

ReaderPrintLabel ==
    /\ pcReader = "L10"
    /\ cout' = Append(cout, "Read: ")
    /\ pcReader' = "L10_value"
    /\ UNCHANGED <<prog, pc, exit, localVars, genVars, mutex, shared_data,
                   pcWriter, lockLog, prev>>

ReaderPrintValue ==
    /\ pcReader = "L10_value"
    /\ cout' = Append(cout, ToString(shared_data))
    /\ pcReader' = "L10_endl"
    /\ UNCHANGED <<prog, pc, exit, localVars, genVars, mutex, shared_data,
                   pcWriter, lockLog, prev>>

ReaderPrintEndl ==
    /\ pcReader = "L10_endl"
    /\ cout' = Append(cout, "\n")
    /\ pcReader' = "L11"
    /\ UNCHANGED <<prog, pc, exit, localVars, genVars, mutex, shared_data,
                   pcWriter, lockLog, prev>>

(* Faulty variant: the reader returns without releasing the shared lock.   *)
ReaderUnlock_Leak ==
    /\ pcReader = "L11"
    /\ pcReader' = "done"
    /\ UNCHANGED <<progVars, localVars, genVars, mutex, shared_data, pcWriter,
                   lockLog, prev>>

(* The shared_lock's destructor at the end of reader's scope.              *)
ReaderUnlock ==
    /\ pcReader = "L11"
    /\ mutex' = [mutex EXCEPT !.shared = @ - 1]
    /\ lockLog' = Append(lockLog, "unlock_shared")
    /\ pcReader' = "done"
    /\ UNCHANGED <<progVars, localVars, genVars, shared_data, pcWriter, prev>>

WriterLock ==
    /\ pcWriter = "L14"
    /\ CanLockExclusive
    /\ mutex' = [mutex EXCEPT !.exclusive = TRUE]
    /\ lockLog' = Append(lockLog, "lock")
    /\ pcWriter' = "L15"
    /\ UNCHANGED <<progVars, localVars, genVars, shared_data, pcReader, prev>>

(* Faulty variant: the increment is lost.                                  *)
WriterIncrement_Lost ==
    /\ pcWriter = "L15"
    /\ shared_data' = shared_data
    /\ pcWriter' = "L16"
    /\ UNCHANGED <<progVars, localVars, genVars, mutex, pcReader, lockLog, prev>>

WriterIncrement ==
    /\ pcWriter = "L15"
    /\ shared_data' = shared_data + 1
    /\ pcWriter' = "L16"
    /\ UNCHANGED <<progVars, localVars, genVars, mutex, pcReader, lockLog, prev>>

WriterPrintLabel ==
    /\ pcWriter = "L16"
    /\ cout' = Append(cout, "Write: ")
    /\ pcWriter' = "L16_value"
    /\ UNCHANGED <<prog, pc, exit, localVars, genVars, mutex, shared_data,
                   pcReader, lockLog, prev>>

WriterPrintValue ==
    /\ pcWriter = "L16_value"
    /\ cout' = Append(cout, ToString(shared_data))
    /\ pcWriter' = "L16_endl"
    /\ UNCHANGED <<prog, pc, exit, localVars, genVars, mutex, shared_data,
                   pcReader, lockLog, prev>>

WriterPrintEndl ==
    /\ pcWriter = "L16_endl"
    /\ cout' = Append(cout, "\n")
    /\ pcWriter' = "L17"
    /\ UNCHANGED <<prog, pc, exit, localVars, genVars, mutex, shared_data,
                   pcReader, lockLog, prev>>

WriterUnlock ==
    /\ pcWriter = "L17"
    /\ mutex' = [mutex EXCEPT !.exclusive = FALSE]
    /\ lockLog' = Append(lockLog, "unlock")
    /\ pcWriter' = "done"
    /\ UNCHANGED <<progVars, localVars, genVars, shared_data, pcReader, prev>>

MainThread ==
    \/ MainSpawnT1
    \/ MainSpawnT2
    \/ MainJoinT1
    \/ MainJoinT2
    \/ SharedMutexReturn

Reader ==
    \/ ReaderLock
    \/ ReaderPrintLabel
    \/ ReaderPrintValue
    \/ ReaderPrintEndl
    \/ ReaderUnlock

Writer ==
    \/ WriterLock
    \/ WriterIncrement
    \/ WriterPrintLabel
    \/ WriterPrintValue
    \/ WriterPrintEndl
    \/ WriterUnlock

SharedMutexNext == MainThread \/ Reader \/ Writer

----------------------------------------------------------------------------
(* Integer arithmetic of the language on int.                              *)

NegAbs(x) == IF x > 0 THEN -x ELSE x

(* x / y for y # 0 where the quotient is representable: truncation toward  *)
(* zero, computed from the floor quotient.                                 *)
Quotient(x, y) ==
    IF y = MinInt THEN (IF x = MinInt THEN 1 ELSE 0)
    ELSE LET floor == x \div y
             exact == x % (IF y > 0 THEN y ELSE -y) = 0
         IN  IF ~exact /\ ((x < 0) # (y < 0)) THEN floor + 1 ELSE floor

(* INT_MIN / -1 is not representable: the behaviour is undefined.          *)
DivideOverflows(x, y) == x = MinInt /\ y = -1

(* The values the expression x / y may produce, y # 0.                     *)
IntDivide(x, y) ==
    IF DivideOverflows(x, y) THEN UBValues ELSE {Quotient(x, y)}

(* Whether x * y leaves the range of int (signed overflow, undefined).     *)
Abs(x) == IF x < 0 THEN -x ELSE x

TimesOverflows(x, y) ==
    IF x = 0 \/ y = 0 THEN FALSE
    ELSE IF x = MinInt THEN y # 1
    ELSE IF y = MinInt THEN x # 1
    ELSE LET ax == Abs(x)
             ay == Abs(y)
             limit == MaxInt \div ay
             isMinInt == /\ (x < 0) # (y < 0)
                         /\ MaxInt % ay = ay - 1
                         /\ ax - 1 = limit
         IN  ax > limit /\ ~isMinInt

(* The values the expression x * y may produce.                            *)
IntTimes(x, y) ==
    IF TimesOverflows(x, y) THEN UBValues ELSE {x * y}

----------------------------------------------------------------------------
(* std::optional<int> and std::expected<int, std::string> values.          *)

nullopt        == [has |-> FALSE]
Some(v)        == [has |-> TRUE, val |-> v]
unexpected(e)  == [has |-> FALSE, err |-> e]

----------------------------------------------------------------------------
(* cpp17/optional.cpp                                                      *)

(* The values divide(x, y) may return.                                     *)
divide(x, y) ==
    IF y = 0 THEN {nullopt} ELSE {Some(q) : q \in IntDivide(x, y)}

OptionalDivide ==
    /\ prog = "optional" /\ pc = "L11"
    /\ \/ /\ \E r \in divide(a, b) : result' = r
          /\ pc' = "L11_test"
          /\ exit' = exit
       \/ /\ b # 0 /\ DivideOverflows(a, b)
          /\ Exit("SIGFPE")
          /\ result' = result
    /\ UNCHANGED <<prog, cout, a, b, n, i, idx, compile_time_result,
                   runtime_result, applied, genVars, smVars, prev>>

OptionalPrint ==
    /\ prog = "optional" /\ pc = "L11_test"
    /\ cout' = IF result.has
               THEN cout \o <<"Result: ", ToString(result.val), "\n">>
               ELSE cout
    /\ pc' = "L14"
    /\ UNCHANGED <<prog, exit, localVars, genVars, smVars, prev>>

OptionalReturn ==
    /\ prog = "optional" /\ pc = "L14"
    /\ Exit("0")
    /\ UNCHANGED <<prog, cout, localVars, genVars, smVars, prev>>

OptionalNext == OptionalDivide \/ OptionalPrint \/ OptionalReturn

----------------------------------------------------------------------------
(* cpp23/expected.cpp                                                      *)

(* The values divide(x, y) may return.                                     *)
divide_expected(x, y) ==
    IF y = 0 THEN {unexpected("Division by zero")}
    ELSE {Some(q) : q \in IntDivide(x, y)}

ExpectedDivide ==
    /\ prog = "expected" /\ pc = "L13"
    /\ \/ /\ \E r \in divide_expected(a, b) : result' = r
          /\ pc' = "L14"
          /\ exit' = exit
       \/ /\ b # 0 /\ DivideOverflows(a, b)
          /\ Exit("SIGFPE")
          /\ result' = result
    /\ UNCHANGED <<prog, cout, a, b, n, i, idx, compile_time_result,
                   runtime_result, applied, genVars, smVars, prev>>

ExpectedPrint ==
    /\ prog = "expected" /\ pc = "L14"
    /\ cout' = IF result.has
               THEN cout \o <<"Result: ", ToString(result.val), "\n">>
               ELSE cout \o <<"Error: ", result.err, "\n">>
    /\ pc' = "L19"
    /\ UNCHANGED <<prog, exit, localVars, genVars, smVars, prev>>

ExpectedReturn ==
    /\ prog = "expected" /\ pc = "L19"
    /\ Exit("0")
    /\ UNCHANGED <<prog, cout, localVars, genVars, smVars, prev>>

ExpectedNext == ExpectedDivide \/ ExpectedPrint \/ ExpectedReturn

----------------------------------------------------------------------------
(* cpp23/optional_monadic.cpp.  The chain of main is taken with the        *)
(* meaning its callables give it: or_else's callable returns 0, which      *)
(* becomes the optional holding 0, and printing the optional prints the    *)
(* value it holds.                                                         *)

(* The values safe_divide(x, y) may return.                                *)
safe_divide(x, y) ==
    IF y = 0 THEN {nullopt} ELSE {Some(q) : q \in IntDivide(x, y)}

MonadicDivide ==
    /\ prog = "optional_monadic" /\ pc = "L10"
    /\ \/ /\ \E r \in safe_divide(a, b) : result' = r
          /\ pc' = "L11"
          /\ exit' = exit
       \/ /\ b # 0 /\ DivideOverflows(a, b)
          /\ Exit("SIGFPE")
          /\ result' = result
    /\ UNCHANGED <<prog, cout, a, b, n, i, idx, compile_time_result,
                   runtime_result, applied, genVars, smVars, prev>>

(* .and_then([](int n) { return safe_divide(n, 2); })                      *)
MonadicAndThen ==
    /\ prog = "optional_monadic" /\ pc = "L11"
    /\ IF result.has
       THEN /\ \E r \in safe_divide(result.val, 2) : result' = r
            /\ applied' = applied \cup {"and_then"}
       ELSE /\ result' = nullopt
            /\ applied' = applied
    /\ pc' = "L12"
    /\ UNCHANGED <<prog, exit, cout, a, b, n, i, idx, compile_time_result,
                   runtime_result, genVars, smVars, prev>>

(* .transform([](int n) { return n * 2; })                                 *)
MonadicTransform ==
    /\ prog = "optional_monadic" /\ pc = "L12"
    /\ IF result.has
       THEN /\ \E v \in IntTimes(result.val, 2) : result' = Some(v)
            /\ applied' = applied \cup {"transform"}
       ELSE /\ result' = nullopt
            /\ applied' = applied
    /\ pc' = "L13"
    /\ UNCHANGED <<prog, exit, cout, a, b, n, i, idx, compile_time_result,
                   runtime_result, genVars, smVars, prev>>

(* .or_else([]() { return 0; })                                            *)
MonadicOrElse ==
    /\ prog = "optional_monadic" /\ pc = "L13"
    /\ IF result.has
       THEN /\ result' = result
            /\ applied' = applied
       ELSE /\ result' = Some(0)
            /\ applied' = applied \cup {"or_else"}
    /\ pc' = "L15"
    /\ UNCHANGED <<prog, exit, cout, a, b, n, i, idx, compile_time_result,
                   runtime_result, genVars, smVars, prev>>

MonadicPrint ==
    /\ prog = "optional_monadic" /\ pc = "L15"
    /\ cout' = cout \o <<"Result: ", ToString(result.val), "\n">>
    /\ pc' = "L16"
    /\ UNCHANGED <<prog, exit, localVars, genVars, smVars, prev>>

MonadicReturn ==
    /\ prog = "optional_monadic" /\ pc = "L16"
    /\ Exit("0")
    /\ UNCHANGED <<prog, cout, localVars, genVars, smVars, prev>>

MonadicNext ==
    \/ MonadicDivide
    \/ MonadicAndThen
    \/ MonadicTransform
    \/ MonadicOrElse
    \/ MonadicPrint
    \/ MonadicReturn

----------------------------------------------------------------------------
(* cpp23/generator.cpp                                                     *)

CountdownStart == 10

(* auto fib = fibonacci(): the coroutine is created suspended.             *)
FibCreate ==
    /\ prog = "generator" /\ pc = "L15"
    /\ pcGen' = "initial_suspend"
    /\ pc' = "L16"
    /\ UNCHANGED <<prog, exit, cout, localVars, yields, smVars, prev>>

(* The for statement's init-statement and fib.begin(), which resumes the   *)
(* coroutine for the first time.                                           *)
ForBegin ==
    /\ prog = "generator" /\ pc = "L16"
    /\ idx' = CountdownStart
    /\ pcGen' = "L5"
    /\ pc' = "L16_resume"
    /\ UNCHANGED <<prog, exit, cout, a, b, result, n, i, compile_time_result,
                   runtime_result, applied, yields, smVars, prev>>

GenStart ==
    /\ pcGen = "L5"
    /\ a' = 0 /\ b' = 1
    /\ pcGen' = "L7"
    /\ UNCHANGED <<progVars, result, n, i, idx, compile_time_result,
                   runtime_result, applied, yields, smVars, prev>>

(* co_yield a: the coroutine suspends and control returns to main.         *)
GenYield ==
    /\ pcGen = "L7"
    /\ yields' = Append(yields, a)
    /\ pcGen' = "suspended"
    /\ pc' = "L16_bind"
    /\ UNCHANGED <<prog, exit, cout, localVars, smVars, prev>>

(* Faulty variant: b is computed from the new a, without temp.             *)
GenAdvance_NoTemp ==
    /\ pcGen = "L8"
    /\ a' = b
    /\ b' = a' + b
    /\ pcGen' = "L7"
    /\ UNCHANGED <<progVars, result, n, i, idx, compile_time_result,
                   runtime_result, applied, yields, smVars, prev>>

(* The loop body after a resumption: lines 8 to 10.                        *)
GenAdvance ==
    /\ pcGen = "L8"
    /\ LET temp == a IN
         /\ a' = b
         /\ b' = temp + b
    /\ pcGen' = "L7"
    /\ UNCHANGED <<progVars, result, n, i, idx, compile_time_result,
                   runtime_result, applied, yields, smVars, prev>>

(* int i = *it, the value the suspended coroutine yielded.                 *)
ForBind ==
    /\ prog = "generator" /\ pc = "L16_bind"
    /\ i' = a
    /\ pc' = "L17"
    /\ UNCHANGED <<prog, exit, cout, a, b, result, n, idx, compile_time_result,
                   runtime_result, applied, genVars, smVars, prev>>

GeneratorPrint ==
    /\ prog = "generator" /\ pc = "L17"
    /\ cout' = cout \o <<ToString(i), " ">>
    /\ pc' = "L18"
    /\ UNCHANGED <<prog, exit, localVars, genVars, smVars, prev>>

(* Faulty variant: the loop breaks one value early.                        *)
Countdown_Early ==
    /\ prog = "generator" /\ pc = "L18"
    /\ idx' = idx - 1
    /\ pc' = IF idx' <= 1 THEN "L22" ELSE "L16_next"
    /\ UNCHANGED <<prog, exit, cout, a, b, result, n, i, compile_time_result,
                   runtime_result, applied, genVars, smVars, prev>>

(* if (--idx <= 0) break; idx is a size_t that is never 0 here.            *)
Countdown ==
    /\ prog = "generator" /\ pc = "L18"
    /\ idx' = idx - 1
    /\ pc' = IF idx' <= 0 THEN "L22" ELSE "L16_next"
    /\ UNCHANGED <<prog, exit, cout, a, b, result, n, i, compile_time_result,
                   runtime_result, applied, genVars, smVars, prev>>

(* ++it resumes the coroutine after its co_yield.                          *)
ForNext ==
    /\ prog = "generator" /\ pc = "L16_next"
    /\ pcGen' = "L8"
    /\ pc' = "L16_resume"
    /\ UNCHANGED <<prog, exit, cout, localVars, yields, smVars, prev>>

GeneratorEndl ==
    /\ prog = "generator" /\ pc = "L22"
    /\ cout' = Append(cout, "\n")
    /\ pc' = "L23"
    /\ UNCHANGED <<prog, exit, localVars, genVars, smVars, prev>>

(* return 0 destroys fib and with it the suspended coroutine.              *)
GeneratorReturn ==
    /\ prog = "generator" /\ pc = "L23"
    /\ Exit("0")
    /\ pcGen' = "destroyed"
    /\ UNCHANGED <<prog, cout, localVars, yields, smVars, prev>>

fibonacci == GenStart \/ GenYield \/ GenAdvance

GeneratorMain ==
    \/ FibCreate
    \/ ForBegin
    \/ ForBind
    \/ GeneratorPrint
    \/ Countdown
    \/ ForNext
    \/ GeneratorEndl
    \/ GeneratorReturn

GeneratorNext == GeneratorMain \/ fibonacci

----------------------------------------------------------------------------
(* cpp11/constexpr.cpp and cpp23/if_consteval.cpp                          *)

(* The value of an int expression, or the fact that evaluating it          *)
(* overflowed.                                                             *)
Defined(v) == [ub |-> FALSE, val |-> v]
Undefined  == [ub |-> TRUE]

(* x * r for an r that may itself be the outcome of an overflow.           *)
Times(x, r) ==
    IF r.ub \/ TimesOverflows(x, r.val) THEN Undefined ELSE Defined(x * r.val)

(* Faulty variant: the base case returns n instead of 1.                   *)
RECURSIVE factorial_BaseReturnsN(_)
factorial_BaseReturnsN(m) ==
    IF m <= 1 THEN {Defined(m)} ELSE {Times(m, r) : r \in factorial_BaseReturnsN(m - 1)}

(* cpp11/constexpr.cpp: n <= 1 ? 1 : n * factorial(n - 1).  The outcome is *)
(* given as a one-element set, as the inner call is evaluated once.        *)
RECURSIVE factorial(_)
factorial(m) ==
    IF m <= 1 THEN {Defined(1)} ELSE {Times(m, r) : r \in factorial(m - 1)}

ConstexprPrint ==
    /\ prog = "constexpr" /\ pc = "L8"
    /\ \E r \in factorial(n) :
         \E v \in (IF r.ub THEN UBValues ELSE {r.val}) : result' = v
    /\ cout' = cout \o <<ToString(result'), "\n">>
    /\ pc' = "L9"
    /\ UNCHANGED <<prog, exit, a, b, n, i, idx, compile_time_result,
                   runtime_result, applied, genVars, smVars, prev>>

ConstexprReturn ==
    /\ prog = "constexpr" /\ pc = "L9"
    /\ Exit("0")
    /\ UNCHANGED <<prog, cout, localVars, genVars, smVars, prev>>

ConstexprNext == ConstexprPrint \/ ConstexprReturn

(* cpp23/if_consteval.cpp, the if consteval branch of factorial.           *)
RECURSIVE factorial_consteval(_)
factorial_consteval(m) ==
    IF m <= 1 THEN {Defined(1)} ELSE {Times(m, r) : r \in factorial_consteval(m - 1)}

(* constexpr int compile_time_result = factorial(n): an overflow is not a  *)
(* constant expression, and the program is then ill-formed.                *)
ConstevalInit ==
    /\ prog = "if_consteval" /\ pc = "L16"
    /\ \E r \in factorial_consteval(n) :
         IF r.ub
         THEN /\ Exit("ill-formed")
              /\ compile_time_result' = compile_time_result
         ELSE /\ compile_time_result' = r.val
              /\ pc' = "L17"
              /\ exit' = exit
    /\ UNCHANGED <<prog, cout, a, b, result, n, i, idx, runtime_result,
                   applied, genVars, smVars, prev>>

ConstevalPrint ==
    /\ prog = "if_consteval" /\ pc = "L17"
    /\ cout' = cout \o <<"Compile-time result: ", ToString(compile_time_result), "\n">>
    /\ pc' = "L20"
    /\ UNCHANGED <<prog, exit, localVars, genVars, smVars, prev>>

(* factorial(n) at run time: int result = 1; for (int i = 2; ...           *)
FactorialEnter ==
    /\ prog = "if_consteval" /\ pc = "L20"
    /\ result' = 1
    /\ i' = 2
    /\ pc' = "L8"
    /\ UNCHANGED <<prog, exit, cout, a, b, n, idx, compile_time_result,
                   runtime_result, applied, genVars, smVars, prev>>

(* i <= n holds: result *= i; ++i                                          *)
FactorialLoop ==
    /\ prog = "if_consteval" /\ pc = "L8"
    /\ i <= n
    /\ \E v \in IntTimes(result, i) : result' = v
    /\ i' = i + 1
    /\ UNCHANGED <<progVars, a, b, n, idx, compile_time_result,
                   runtime_result, applied, genVars, smVars, prev>>

(* i <= n fails: return result, which initialises runtime_result.          *)
FactorialExit ==
    /\ prog = "if_consteval" /\ pc = "L8"
    /\ ~(i <= n)
    /\ runtime_result' = result
    /\ pc' = "L21"
    /\ UNCHANGED <<prog, exit, cout, a, b, result, n, i, idx,
                   compile_time_result, applied, genVars, smVars, prev>>

RuntimePrint ==
    /\ prog = "if_consteval" /\ pc = "L21"
    /\ cout' = cout \o <<"Runtime result: ", ToString(runtime_result), "\n">>
    /\ pc' = "L23"
    /\ UNCHANGED <<prog, exit, localVars, genVars, smVars, prev>>

IfConstevalReturn ==
    /\ prog = "if_consteval" /\ pc = "L23"
    /\ Exit("0")
    /\ UNCHANGED <<prog, cout, localVars, genVars, smVars, prev>>

IfConstevalNext ==
    \/ ConstevalInit
    \/ ConstevalPrint
    \/ FactorialEnter
    \/ FactorialLoop
    \/ FactorialExit
    \/ RuntimePrint
    \/ IfConstevalReturn

----------------------------------------------------------------------------
(* cpp23/static_operator_brackets.cpp                                      *)

size == 3
data == <<1, 2, 3>>

(* Faulty variant: the index itself is returned.                           *)
operator_brackets_Index(j) == IF j < size THEN j ELSE 0

(* MyArray::operator[]: i < size ? i + 1 : 0                               *)
operator_brackets(j) == IF j < size THEN j + 1 ELSE 0

(* std::cout << MyArray::operator[](i) << std::endl                        *)
StaticCall ==
    /\ prog = "static_operator_brackets" /\ pc = "L14"
    /\ result' = operator_brackets(i)
    /\ cout' = cout \o <<ToString(result'), "\n">>
    /\ pc' = "L15"
    /\ UNCHANGED <<prog, exit, a, b, n, i, idx, compile_time_result,
                   runtime_result, applied, genVars, smVars, prev>>

(* std::cout << arr[i] << std::endl: arr[i] calls the static operator[].   *)
SubscriptCall ==
    /\ prog = "static_operator_brackets" /\ pc = "L15"
    /\ result' = operator_brackets(i)
    /\ cout' = cout \o <<ToString(result'), "\n">>
    /\ pc' = "L16"
    /\ UNCHANGED <<prog, exit, a, b, n, i, idx, compile_time_result,
                   runtime_result, applied, genVars, smVars, prev>>

BracketsReturn ==
    /\ prog = "static_operator_brackets" /\ pc = "L16"
    /\ Exit("0")
    /\ UNCHANGED <<prog, cout, localVars, genVars, smVars, prev>>

BracketsNext == StaticCall \/ SubscriptCall \/ BracketsReturn

----------------------------------------------------------------------------
(* Initial states: the entry of main, with the arguments of the functions  *)
(* under study drawn from the input sets.                                  *)

Entry ==
    [shared_mutex |-> "L20", optional |-> "L11", expected |-> "L13",
     optional_monadic |-> "L10", generator |-> "L15", constexpr |-> "L8",
     if_consteval |-> "L16", static_operator_brackets |-> "L14"]

Start(p, a0, b0, n0, i0) ==
    /\ prog = p
    /\ pc = Entry[p]
    /\ exit = "running"
    /\ cout = <<>>
    /\ a = a0 /\ b = b0
    /\ result = IF p \in {"optional", "expected", "optional_monadic"}
                THEN nullopt ELSE 0
    /\ n = n0
    /\ i = i0
    /\ idx = 0
    /\ compile_time_result = 0
    /\ runtime_result = 0
    /\ applied = {}
    /\ pcGen = "none"
    /\ yields = <<>>
    /\ mutex = FreeMutex
    /\ shared_data = 0
    /\ pcReader = "unborn"
    /\ pcWriter = "unborn"
    /\ lockLog = <<>>
    /\ prev = <<>>

Init ==
    \/ Start("shared_mutex", 0, 0, 0, 0)
    \/ Start("generator", 0, 0, 0, 0)
    \/ \E p \in {"optional", "expected", "optional_monadic"} :
         \E x \in DivInputs, y \in DivInputs : Start(p, x, y, 0, 0)
    \/ \E p \in {"constexpr", "if_consteval"} :
         \E m \in FactInputs : Start(p, 0, 0, m, 0)
    \/ \E j \in 0..MaxIndex : Start("static_operator_brackets", 0, 0, 0, j)

Next ==
    \/ SharedMutexNext
    \/ OptionalNext
    \/ ExpectedNext
    \/ MonadicNext
    \/ GeneratorNext
    \/ ConstexprNext
    \/ IfConstevalNext
    \/ BracketsNext

Spec == Init /\ [][Next]_vars

(* Every thread that can take a step eventually takes one.                 *)
Fairness ==
    /\ WF_vars(MainThread)
    /\ WF_vars(Reader)
    /\ WF_vars(Writer)
    /\ WF_vars(GeneratorMain)
    /\ WF_vars(fibonacci)
    /\ WF_vars(OptionalNext \/ ExpectedNext \/ MonadicNext \/ ConstexprNext
               \/ IfConstevalNext \/ BracketsNext)

FairSpec == Spec /\ Fairness

(* Two executions of shared_mutex, one after the other: once the first     *)
(* has exited, its output is kept in prev and the program starts again.    *)
Rerun ==
    /\ prog = "shared_mutex" /\ pc = "exited"
    /\ prev = <<>>
    /\ prev' = cout
    /\ pc' = Entry[prog]
    /\ exit' = "running"
    /\ cout' = <<>>
    /\ mutex' = FreeMutex
    /\ shared_data' = 0
    /\ pcReader' = "unborn"
    /\ pcWriter' = "unborn"
    /\ lockLog' = <<>>
    /\ UNCHANGED <<prog, localVars, genVars>>

RerunInit == Start("shared_mutex", 0, 0, 0, 0)

RerunNext == SharedMutexNext \/ Rerun

RerunSpec == RerunInit /\ [][RerunNext]_vars

----------------------------------------------------------------------------
(* Properties of cpp14/shared_mutex.cpp.                                   *)

ReaderInCS == pcReader \in {"L10", "L10_value", "L10_endl", "L11"}
WriterInCS == pcWriter \in {"L15", "L16", "L16_value", "L16_endl", "L17"}

(* C1: the writer's exclusive critical section never overlaps the reader's *)
(* shared one: the writer never holds the unique lock while the reader     *)
(* holds the shared lock, so the reader never reads shared_data between    *)
(* the writer's increment and the writer's print.                          *)
C1_MutualExclusion ==
    /\ ~(ReaderInCS /\ WriterInCS)
    /\ ~(mutex.exclusive /\ mutex.shared > 0)
    /\ ReaderInCS <=> mutex.shared = 1
    /\ WriterInCS <=> mutex.exclusive
    /\ pcReader = "L10_value" => pcWriter \notin {"L16", "L16_value", "L16_endl"}

(* The writer is between its increment and its print while the reader      *)
(* waits for the shared lock.                                              *)
C1_Witness ==
    /\ pcWriter = "L16" /\ shared_data = 1
    /\ pcReader = "L9"
    /\ mutex.exclusive

Count(seq, tok) == Cardinality({k \in 1..Len(seq) : seq[k] = tok})

C2_Finished ==
    /\ prog = "shared_mutex"
    /\ pc = "exited" /\ exit = "0"
    /\ pcReader = "done" /\ pcWriter = "done"
    /\ mutex = FreeMutex
    /\ Count(cout, "Read: ") = 1 /\ Count(cout, "Write: ") = 1
    /\ Count(cout, "\n") = 2 /\ Len(cout) = 6

(* C2: under fair scheduling every interleaving of reader and writer       *)
(* terminates: each thread takes its lock, prints once and releases it,    *)
(* both joins return and main exits with status 0.                         *)
C2_Terminates == (prog = "shared_mutex") ~> C2_Finished

C2_Witness == C2_Finished /\ lockLog[1] = "lock_shared"

ReadFirst  == <<"Read: ", "0", "\n", "Write: ", "1", "\n">>
WriteFirst == <<"Write: ", "1", "\n", "Read: ", "1", "\n">>

(* C3, as claimed: the lines printed are the same in every execution.      *)
C3_SameOutputEveryRun ==
    (prev # <<>> /\ pc = "exited") => cout = prev

(* C3, amended: every execution prints one of two outputs, "Read: 0" then  *)
(* "Write: 1" or "Write: 1" then "Read: 1", each line whole; which one     *)
(* depends on the interleaving.                                            *)
C3_OneOfTwoOutputs ==
    /\ pc = "exited" => cout \in {ReadFirst, WriteFirst}
    /\ prev \in {<<>>, ReadFirst, WriteFirst}
    /\ \E k \in 0..6 : cout = SubSeq(ReadFirst, 1, k) \/ cout = SubSeq(WriteFirst, 1, k)

(* Two executions of the program that printed different outputs.           *)
C3_Witness ==
    /\ prev = ReadFirst
    /\ pc = "exited" /\ cout = WriteFirst

Pos(seq, tok) == CHOOSE k \in 1..Len(seq) : seq[k] = tok
Occurred(e)   == Count(lockLog, e) > 0
Before(e, f)  == Occurred(e) /\ (Occurred(f) => Pos(lockLog, e) < Pos(lockLog, f))

ReaderHasPrinted == Count(cout, "Read: ") > 0 /\ Pos(cout, "Read: ") < Len(cout)
WriterHasPrinted == Count(cout, "Write: ") > 0 /\ Pos(cout, "Write: ") < Len(cout)
ReadPrinted      == cout[Pos(cout, "Read: ") + 1]
WritePrinted     == cout[Pos(cout, "Write: ") + 1]

(* C8: the reader prints 0 or 1: 1 exactly when the writer released the    *)
(* exclusive lock before the reader took the shared lock, 0 exactly when   *)
(* the reader took the shared lock before the writer took the exclusive    *)
(* lock; the writer always prints 1, and shared_data is 1 when main        *)
(* returns.                                                                *)
C8_ReaderSeesZeroOrOne ==
    /\ ReaderHasPrinted =>
         /\ ReadPrinted \in {"0", "1"}
         /\ ReadPrinted = "1" <=>
              (Occurred("unlock") /\ Pos(lockLog, "unlock") < Pos(lockLog, "lock_shared"))
         /\ ReadPrinted = "0" <=> Before("lock_shared", "lock")
    /\ WriterHasPrinted => WritePrinted = "1"
    /\ pc = "exited" => shared_data = 1

(* Both orders happened: the previous execution read 0, this one read 1.   *)
C8_Witness ==
    /\ prev = ReadFirst
    /\ pc = "exited" /\ ReaderHasPrinted /\ ReadPrinted = "1"
    /\ lockLog = <<"lock", "unlock", "lock_shared", "unlock_shared">>
    /\ shared_data = 1

----------------------------------------------------------------------------
(* Properties of the division guards.                                      *)

(* q is the integer quotient of x by y truncated toward zero: x = q*y + r  *)
(* with |r| < |y| and r zero or of the sign of x.                          *)
IsTruncQuotient(q, x, y) ==
    /\ y # 0
    /\ ~TimesOverflows(q, y)
    /\ LET p == q * y IN
         /\ p = 0 \/ (p > 0) = (x > 0)
         /\ LET r == x - p IN
              /\ r = 0 \/ (r > 0) = (x > 0)
              /\ NegAbs(r) > NegAbs(y)

(* The states in which result holds what divide / safe_divide returned.    *)
DivideReturned ==
    \/ prog = "optional" /\ (pc \in {"L11_test", "L14"} \/ exit = "0")
    \/ prog = "expected" /\ (pc \in {"L14", "L19"} \/ exit = "0")
    \/ prog = "optional_monadic" /\ pc = "L11"

(* C4: the division guard returns the empty/error outcome if and only if   *)
(* b is 0 (the error being "Division by zero" in the expected version),    *)
(* and for every b # 0 it returns a value holding the truncated quotient   *)
(* a / b, so divide(10, 2) holds 5.                                        *)
C4_DivisionGuard ==
    /\ prog \in {"optional", "expected", "optional_monadic"} => exit # "SIGFPE"
    /\ DivideReturned =>
         /\ ~result.has <=> b = 0
         /\ (b = 0 /\ prog = "expected") => result = unexpected("Division by zero")
         /\ (b = 0 /\ prog # "expected") => result = nullopt
         /\ b # 0 => IsTruncQuotient(result.val, a, b)
         /\ (a = 10 /\ b = 2) => result = Some(5)

(* The same statement for the operands whose quotient is an int.           *)
C4_GuardWhereRepresentable ==
    DivideOverflows(a, b) \/ C4_DivisionGuard

ChainDone ==
    prog = "optional_monadic" /\ (pc \in {"L15", "L16"} \/ exit = "0")

(* v = 2 * ((x / y) / 2) with both divisions truncating.                   *)
IsChainValue(v, x, y) ==
    /\ v % 2 = 0
    /\ \E q \in {w \in {v, v + 1} \cup (IF v > MinInt THEN {v - 1} ELSE {}) : TRUE} :
         /\ IsTruncQuotient(v \div 2, q, 2)
         /\ IsTruncQuotient(q, x, y)

(* C5: for all a and b the or_else fallback substitutes 0 exactly when the *)
(* chain is empty, which is exactly when b = 0; when b # 0 and_then and    *)
(* transform both run and the result is 2 * ((a / b) / 2); when the chain  *)
(* is empty neither and_then's nor transform's callable is applied.        *)
C5_MonadicChain ==
    /\ prog = "optional_monadic" => exit # "SIGFPE"
    /\ ChainDone =>
         /\ "or_else" \in applied <=> b = 0
         /\ b = 0 => applied = {"or_else"} /\ result = Some(0)
         /\ b # 0 =>
              /\ applied = {"and_then", "transform"}
              /\ result.has
              /\ ~DivideOverflows(a, b)
              /\ IsChainValue(result.val, a, b)

(* The same statement for the operands whose quotient is an int.           *)
C5_ChainWhereRepresentable ==
    DivideOverflows(a, b) \/ C5_MonadicChain

----------------------------------------------------------------------------
(* Properties of cpp23/generator.cpp.                                      *)

TenFibonacci ==
    <<"0", " ", "1", " ", "1", " ", "2", " ", "3", " ", "5", " ", "8", " ",
      "13", " ", "21", " ", "34", " ">>

(* C6: the k-th value the generator yields is F(k), with F(0) = 0,         *)
(* F(1) = 1 and F(k+2) = F(k+1) + F(k); main prints exactly the ten values *)
(* 0 1 1 2 3 5 8 13 21 34 in that order and no eleventh.                   *)
C6_Fibonacci ==
    prog = "generator" =>
        /\ Len(yields) >= 1 => yields[1] = 0
        /\ Len(yields) >= 2 => yields[2] = 1
        /\ \A k \in 1..(Len(yields) - 2) : yields[k + 2] = yields[k + 1] + yields[k]
        /\ pc = "L17" => i = yields[Len(yields)]
        /\ Len(cout) <= Len(TenFibonacci) + 1
        /\ cout = SubSeq(TenFibonacci \o <<"\n">>, 1, Len(cout))
        /\ pc \in {"L23", "exited"} => cout = TenFibonacci \o <<"\n">>

C6_Witness ==
    /\ prog = "generator" /\ pc = "exited" /\ exit = "0"
    /\ yields = <<0, 1, 1, 2, 3, 5, 8, 13, 21, 34>>
    /\ cout = TenFibonacci \o <<"\n">>

GenRunning  == pcGen \in {"L5", "L7", "L8"}
AfterBreak  == pc \in {"L22", "L23", "exited"}
Printed     == Count(cout, " ")

(* The generator runs only inside a resumption main asked for, and is      *)
(* never more than one value ahead of the consumer.                        *)
C9_Lazy ==
    prog = "generator" =>
        /\ GenRunning => pc = "L16_resume"
        /\ Len(yields) \in {Printed, Printed + 1}
        /\ pc \in {"L18", "L16_next", "L16_resume"} => Len(yields) = Printed
        /\ pc \in {"L17", "L18"} => idx = CountdownStart - Len(yields) + 1
        /\ AfterBreak =>
             /\ idx = 0
             /\ Len(yields) = CountdownStart /\ Printed = CountdownStart
             /\ pcGen \in {"suspended", "destroyed"}

(* One co_yield per consumer loop body, and none after the break.          *)
C9_Alternates ==
    [][ /\ yields' # yields =>
             /\ Len(yields') = Len(yields) + 1
             /\ Printed = Len(yields)
             /\ ~AfterBreak
        /\ Printed' # Printed =>
             /\ Printed' = Printed + 1
             /\ Len(yields) = Printed'
        /\ AfterBreak => (UNCHANGED <<a, b, yields>> /\ ~GenRunning') ]_vars

C9_Done ==
    /\ prog = "generator" /\ pc = "exited" /\ exit = "0"
    /\ idx = 0 /\ Len(yields) = CountdownStart

(* C9: the generator is lazy and the program terminates although the       *)
(* generator's loop is infinite: the body advances one iteration only when *)
(* the consumer asks for the next value, idx goes from 10 to 0 in exactly  *)
(* ten consumed values, then the consumer breaks, the generator is never   *)
(* resumed again and main returns 0.                                       *)
C9_LazyAndTerminates ==
    /\ []C9_Lazy
    /\ C9_Alternates
    /\ (prog = "generator") ~> C9_Done

(* The break: ten values consumed, the coroutine left suspended.           *)
C9_Witness ==
    /\ prog = "generator" /\ pc = "L22"
    /\ idx = 0 /\ Len(yields) = CountdownStart
    /\ pcGen = "suspended"

----------------------------------------------------------------------------
(* Properties of the factorial implementations.                            *)

FactorialTable ==
    <<1, 2, 6, 24, 120, 720, 5040, 40320, 362880, 3628800, 39916800, 479001600>>

(* n! for n <= 12, and 1 for n <= 1.                                       *)
Factorial(m) == IF m <= 1 THEN 1 ELSE FactorialTable[m]

(* C7: for every n in 0..12 the recursive constexpr factorial, the         *)
(* compile-time branch of if_consteval's factorial and its runtime branch  *)
(* all return n!; for every n <= 1, negative n included, all return 1; in  *)
(* particular factorial(5) is 120 on all three paths.                      *)
C7_FactorialsAgree ==
    n <= 12 =>
        /\ (prog = "constexpr" /\ pc \in {"L9", "exited"}) =>
             /\ result = Factorial(n)
             /\ cout = <<ToString(Factorial(n)), "\n">>
        /\ prog = "if_consteval" =>
             /\ exit # "ill-formed"
             /\ pc # "L16" => compile_time_result = Factorial(n)
             /\ pc \in {"L21", "L23", "exited"} =>
                  /\ runtime_result = Factorial(n)
                  /\ runtime_result = compile_time_result
        /\ (prog = "if_consteval" /\ pc = "exited" /\ n = 5) =>
             cout = <<"Compile-time result: ", "120", "\n",
                      "Runtime result: ", "120", "\n">>

C7_Witness ==
    /\ prog = "if_consteval" /\ pc = "exited" /\ exit = "0"
    /\ n = 12
    /\ compile_time_result = 479001600 /\ runtime_result = 479001600

----------------------------------------------------------------------------
(* Properties of cpp23/static_operator_brackets.cpp.                       *)

=============================================================================
